---- MODULE Spec2Model ----
(***************************************************************************)
(* Pairwise tournament evaluation of vlm-follow-up-eval:                   *)
(*   elo.py   EloRatingSystem (get_rating, calculate_expected_score,       *)
(*            update_ratings, ratings dict, history list)                  *)
(*   main.py  run_pairwise_comparison and process_evaluations              *)
(*   judge.py PairwiseJudge.judge, an external call that returns a         *)
(*            JudgeDecision with winner in {"A","B","Tie"} or raises.      *)
(*                                                                         *)
(* Numbers.  Ratings are Python floats.  Here a rating is an integer       *)
(* number of 1/Scale rating points and a score or probability an integer   *)
(* number of 1/Scale, so k_factor * (result - expected) is an exact        *)
(* integer.  The logistic curve 1/(1+10^(x/400)) is tabulated every        *)
(* TableStep points and interpolated linearly; the tabulated curve is      *)
(* within 1.5/Scale of the real one over the table's range.                *)
(*                                                                         *)
(* Strings.  An item key is a sequence of one-character strings, so that   *)
(* int(key) and the lexicographic order of keys can be computed.           *)
(***************************************************************************)
EXTENDS Integers, Sequences, FiniteSets, TLC

VARIABLES
    pc,                   \* position inside process_evaluations / the API client
    precheck,             \* outcome of the reference-file and is_dir checks
    dir,                  \* stems of the *.jsonl files in the input directory
    outputs,              \* per stem: the item keys of its loaded OutputSet
    model_files,          \* main.py:192, the files in glob order
    pairs,                \* main.py:201
    pair_idx,             \* position of the `for file_a, file_b in pairs` loop
    loaded_models,        \* main.py:204, stems whose file has been loaded
    sorted_inputs,        \* main.py:77-79, of the pair being compared
    item_idx,             \* position of the `for prompt_id in sorted_inputs` loop
    results,              \* main.py:73, results of the pair being compared
    all_pairwise_results, \* main.py:206
    ratings,              \* elo.py:17, a dict: entries in insertion order
    history,              \* elo.py:18
    sorted_ratings,       \* main.py:226, the final ranking
    trace                 \* calls made so far: run_pairwise_comparison, judge, update_ratings

vars == <<pc, precheck, dir, outputs, model_files, pairs, pair_idx, loaded_models,
          sorted_inputs, item_idx, results, all_pairwise_results, ratings, history,
          sorted_ratings, trace>>

tournament_vars == <<precheck, dir, outputs, model_files, pairs, pair_idx, loaded_models,
                     sorted_inputs, item_idx, results, all_pairwise_results,
                     sorted_ratings>>

----------------------------------------------------------------------------
(* Bounds of the model *)

NumEntrants == 3
NumKeys == 2
MaxShared == 2
MaxApiCalls == 3
OrderEntrants == 4

NamePool == <<"M1", "M2", "M3", "M4", "M5">>
EntrantNames == {NamePool[i] : i \in 1..NumEntrants}

\* "1" and "01" parse to the same integer; "a" does not parse.
KeyPool == << <<"1">>, <<"0", "1">>, <<"2">>, <<"1", "0">>, <<"a">> >>
Keys == {KeyPool[i] : i \in 1..NumKeys}

----------------------------------------------------------------------------
(* Generic helpers *)

Range(s) == {s[i] : i \in DOMAIN s}

Perms(S) == {f \in [1..Cardinality(S) -> S] :
                \A i, j \in 1..Cardinality(S) : i # j => f[i] # f[j]}

IndexOf(s, x) == CHOOSE i \in DOMAIN s : s[i] = x

\* Python's sorted(s, key=...): a stable sort by ascending key.  `key` maps
\* each element to an integer.  Element i lands after every element of smaller
\* key and after every earlier element of equal key.
sorted(s, key) ==
    LET rank(i) == 1 + Cardinality({j \in DOMAIN s :
                        \/ key[s[j]] < key[s[i]]
                        \/ (key[s[j]] = key[s[i]] /\ j < i)})
    IN [p \in 1..Len(s) |-> s[CHOOSE i \in DOMAIN s : rank(i) = p]]

----------------------------------------------------------------------------
(* Item keys: int(key) and str < str *)

Digits == <<"0", "1", "2", "3", "4", "5", "6", "7", "8", "9">>
Letters == <<"a", "b", "c">>

IsDigit(c) == \E i \in DOMAIN Digits : Digits[i] = c
DigitValue(c) == (CHOOSE i \in DOMAIN Digits : Digits[i] = c) - 1

\* ord(c) for the characters of the key pool
Ord(c) == IF IsDigit(c) THEN 48 + DigitValue(c)
          ELSE 96 + (CHOOSE i \in DOMAIN Letters : Letters[i] = c)

\* int(x) succeeds: every character is a decimal digit (keys are non-empty,
\* main.py:41, and hold no sign, blank or underscore here)
ParsesAsInt(key) == Len(key) > 0 /\ \A i \in DOMAIN key : IsDigit(key[i])

RECURSIVE int(_)
int(key) ==
    IF key = <<>> THEN 0
    ELSE 10 * int(SubSeq(key, 1, Len(key) - 1)) + DigitValue(key[Len(key)])

\* x < y for Python str: by code point, a proper prefix first
RECURSIVE StrLess(_, _)
StrLess(x, y) ==
    IF y = <<>> THEN FALSE
    ELSE IF x = <<>> THEN TRUE
    ELSE IF Ord(x[1]) # Ord(y[1]) THEN Ord(x[1]) < Ord(y[1])
    ELSE StrLess(Tail(x), Tail(y))

\* the place of a string among the strings of S in the order of str
StrRank(x, S) == Cardinality({y \in S : StrLess(y, x)})

\* main.py:76-79.  `iteration` is the order in which the set common_inputs is
\* iterated; sorted() is stable, so keys with equal int() keep that order.
sort_inputs(iteration) ==
    IF \A i \in DOMAIN iteration : ParsesAsInt(iteration[i])
    THEN sorted(iteration, [x \in Range(iteration) |-> int(x)])
    ELSE sorted(iteration, [x \in Range(iteration) |-> StrRank(x, Range(iteration))])

----------------------------------------------------------------------------
(* elo.py: EloRatingSystem *)

Scale == 10000
TableStep == 16
k_factor == 32
base_rating == 1000

\* Scale / (1 + 10^(TableStep*i/400)) for i = 0..40, rounded
LogisticTable ==
    <<5000, 4770, 4541, 4314, 4089, 3869, 3653, 3442, 3237, 3039, 2847, 2664, 2488,
      2319, 2159, 2008, 1864, 1728, 1600, 1481, 1368, 1263, 1165, 1073, 988, 909,
      836, 768, 705, 647, 594, 544, 499, 457, 418, 383, 350, 321, 293, 268, 245>>

\* Scale / (1 + 10^(x/400)) for a rating difference x >= 0 in 1/Scale points
LogisticTail(x) ==
    LET stepUnits == TableStep * Scale
        i == x \div stepUnits
        rem == x % stepUnits
    IN IF i + 1 >= Len(LogisticTable) THEN LogisticTable[Len(LogisticTable)]
       ELSE LogisticTable[i + 1]
            - ((LogisticTable[i + 1] - LogisticTable[i + 2]) * rem) \div stepUnits

\* the curve applied to the size of the rating difference, whoever is ahead
calculate_expected_score_of_gap(rating_a, rating_b) ==
    LogisticTail(IF rating_b >= rating_a THEN rating_b - rating_a
                 ELSE rating_a - rating_b)

\* elo.py:43
calculate_expected_score(rating_a, rating_b) ==
    IF rating_b >= rating_a THEN LogisticTail(rating_b - rating_a)
    ELSE Scale - LogisticTail(rating_a - rating_b)

HasRating(rs, name) == \E i \in DOMAIN rs : rs[i].model = name
RatingOf(rs, name) == rs[CHOOSE i \in DOMAIN rs : rs[i].model = name].rating
Rated(rs) == {rs[i].model : i \in DOMAIN rs}

\* self.ratings[name] = value: a new key goes last, an old key keeps its place
SetRating(rs, name, value) ==
    IF HasRating(rs, name)
    THEN [i \in DOMAIN rs |-> IF rs[i].model = name
                              THEN [model |-> name, rating |-> value] ELSE rs[i]]
    ELSE Append(rs, [model |-> name, rating |-> value])

\* an unseen entrant started at the best current rating instead of base_rating
get_rating_init_from_best(rs, model_name) ==
    IF ~HasRating(rs, model_name)
    THEN SetRating(rs, model_name,
                   IF rs = <<>> THEN base_rating * Scale
                   ELSE CHOOSE v \in {rs[i].rating : i \in DOMAIN rs} :
                           \A i \in DOMAIN rs : rs[i].rating <= v)
    ELSE rs

\* elo.py:29-30, the ratings dict after get_rating(model_name)
get_rating_init(rs, model_name) ==
    IF ~HasRating(rs, model_name)
    THEN SetRating(rs, model_name, base_rating * Scale)
    ELSE rs

\* elo.py:31, the value get_rating(model_name) returns
get_rating(rs, model_name) == RatingOf(get_rating_init(rs, model_name), model_name)

\* both new ratings stored under model_a
write_ratings_same_key(rs, model_a, new_rating_a, model_b, new_rating_b) ==
    SetRating(SetRating(rs, model_a, new_rating_a), model_a, new_rating_b)

\* elo.py:66-67
write_ratings(rs, model_a, new_rating_a, model_b, new_rating_b) ==
    SetRating(SetRating(rs, model_a, new_rating_a), model_b, new_rating_b)

\* the record put first, as history.insert(0, record)
append_history_at_front(hs, record) == <<record>> \o hs

\* elo.py:69-80
append_history(hs, record) == Append(hs, record)

\* elo.py:45-80, the rating system after update_ratings(model_a, model_b, result)
update_ratings(rs, hs, model_a, model_b, result) ==
    LET rs1 == get_rating_init(rs, model_a)
        rating_a == RatingOf(rs1, model_a)
        rs2 == get_rating_init(rs1, model_b)
        rating_b == RatingOf(rs2, model_b)
        expected_a == calculate_expected_score(rating_a, rating_b)
        expected_b == calculate_expected_score(rating_b, rating_a)
        actual_b == Scale - result
        new_rating_a == rating_a + k_factor * (result - expected_a)
        new_rating_b == rating_b + k_factor * (actual_b - expected_b)
    IN [ratings |-> write_ratings(rs2, model_a, new_rating_a, model_b, new_rating_b),
        history |-> append_history(hs, [model_a |-> model_a,
                                        model_b |-> model_b,
                                        rating_a_before |-> rating_a,
                                        rating_b_before |-> rating_b,
                                        rating_a_after |-> new_rating_a,
                                        rating_b_after |-> new_rating_b,
                                        score_a |-> result,
                                        expected_a |-> expected_a])]

----------------------------------------------------------------------------
(* judge.py: the judge is external.  A call returns a JudgeDecision whose     *)
(* winner is "A" (first response better), "B" (second better) or "Tie"        *)
(* (judge.py:15), or raises, written "Error" here.                            *)

Winners == {"A", "B", "Tie"}
JudgeOutcomes == Winners \cup {"Error"}

Win == Scale
Loss == 0
Draw == Scale \div 2

NoItem == <<>>
NoResult == 0 - 1

\* One call, as a mock of the callee would record it.
PairCall(a, b) ==
    [op |-> "run_pairwise_comparison", first |-> a, second |-> b, item |-> NoItem,
     verdict |-> "-", result |-> NoResult]
JudgeCall(first, second, item, verdict) ==
    [op |-> "judge", first |-> first, second |-> second, item |-> item,
     verdict |-> verdict, result |-> NoResult]
UpdateCall(a, b, result) ==
    [op |-> "update_ratings", first |-> a, second |-> b, item |-> NoItem,
     verdict |-> "-", result |-> result]
GetRatingCall(name, value) ==
    [op |-> "get_rating", first |-> name, second |-> "-", item |-> NoItem,
     verdict |-> "-", result |-> value]
ExpectedScoreCall(value) ==
    [op |-> "calculate_expected_score", first |-> "-", second |-> "-", item |-> NoItem,
     verdict |-> "-", result |-> value]

----------------------------------------------------------------------------
(* main.py: run_pairwise_comparison *)

\* the union of the two key sets instead of their intersection
common_inputs_union(outputs_a, outputs_b) == outputs_a \cup outputs_b

\* main.py:66
common_inputs(outputs_a, outputs_b) == outputs_a \cap outputs_b

\* The response of `model` to `prompt_id`, outputs[prompt_id]: the text is
\* opaque, so a response is named by whose it is.
Response(model, prompt_id) == <<model, prompt_id>>

\* main.py:94-99
score_a_1(winner) ==
    IF winner = "A" THEN Win
    ELSE IF winner = "B" THEN Loss
    ELSE Draw

\* the forward mapping reused for the swapped round
score_a_2_not_inverted(winner) ==
    IF winner = "A" THEN Win
    ELSE IF winner = "B" THEN Loss
    ELSE Draw

\* main.py:128-138
score_a_2(winner) ==
    IF winner = "A" THEN Loss
    ELSE IF winner = "B" THEN Win
    ELSE Draw

\* main.py:128-138
real_winner(winner) ==
    IF winner = "A" THEN "B"
    ELSE IF winner = "B" THEN "A"
    ELSE "Tie"

\* main.py:101: the names the forward round passes to update_ratings
update_args_1(model_a, model_b) == <<model_a, model_b>>

\* the swapped round passing the names in the order shown to the judge
update_args_2_swapped(model_a, model_b) == <<model_b, model_a>>

\* main.py:140: the names the swapped round passes to update_ratings
update_args_2(model_a, model_b) == <<model_a, model_b>>

\* a judge failure scored as a tie instead of skipped
round_elo_error_as_tie(rs, hs, model_a, model_b, verdict, score) ==
    update_ratings(rs, hs, model_a, model_b, IF verdict = "Error" THEN Draw ELSE score)

\* main.py:90-101 and 116, 120-140 and 156: the rating system after one round.
\* An exception of judge.judge leaves the try block before update_ratings.
round_elo(rs, hs, model_a, model_b, verdict, score) ==
    IF verdict = "Error"
    THEN [ratings |-> rs, history |-> hs]
    ELSE update_ratings(rs, hs, model_a, model_b, score)

\* main.py:103-114
result_1(prompt_id, model_a, model_b, winner) ==
    [input |-> prompt_id,
     model_a |-> model_a,
     model_b |-> model_b,
     response_a |-> Response(model_a, prompt_id),
     response_b |-> Response(model_b, prompt_id),
     judge_decision |-> winner,
     swapped |-> FALSE,
     real_winner |-> "-"]

\* main.py:142-154
result_2(prompt_id, model_a, model_b, winner) ==
    [input |-> prompt_id,
     model_a |-> model_b,
     model_b |-> model_a,
     response_a |-> Response(model_b, prompt_id),
     response_b |-> Response(model_a, prompt_id),
     judge_decision |-> winner,
     swapped |-> TRUE,
     real_winner |-> real_winner(winner)]

\* main.py:103 and 142: results after one round
round_results(res, verdict, record) ==
    IF verdict = "Error" THEN res ELSE Append(res, record)

\* the calls one round makes
round_calls(first, second, item, verdict, model_a, model_b, score) ==
    IF verdict = "Error"
    THEN <<JudgeCall(first, second, item, verdict)>>
    ELSE <<JudgeCall(first, second, item, verdict), UpdateCall(model_a, model_b, score)>>

----------------------------------------------------------------------------
(* main.py: process_evaluations *)

\* every ordered pair of distinct files, as itertools.permutations(files, 2)
combinations_both_orders(files) ==
    LET n == Len(files)
        idx == {ij \in (1..n) \X (1..n) : ij[1] # ij[2]}
        Before(p, q) == p[1] < q[1] \/ (p[1] = q[1] /\ p[2] < q[2])
        rank(p) == 1 + Cardinality({q \in idx : Before(q, p)})
    IN [k \in 1..Cardinality(idx) |->
          LET p == CHOOSE q \in idx : rank(q) = k IN <<files[p[1]], files[p[2]]>>]

\* itertools.combinations(files, 2), main.py:201: index pairs i < j, by i then j
combinations(files) ==
    LET n == Len(files)
        idx == {ij \in (1..n) \X (1..n) : ij[1] < ij[2]}
        Before(p, q) == p[1] < q[1] \/ (p[1] = q[1] /\ p[2] < q[2])
        rank(p) == 1 + Cardinality({q \in idx : Before(q, p)})
    IN [k \in 1..Cardinality(idx) |->
          LET p == CHOOSE q \in idx : rank(q) = k IN <<files[p[1]], files[p[2]]>>]

\* the ranking sorted without reverse=True
rank_ratings_ascending(rs) == sorted(rs, [x \in Range(rs) |-> x.rating])

\* main.py:226: reverse=True keeps the order of equal ratings
rank_ratings(rs) == sorted(rs, [x \in Range(rs) |-> 0 - x.rating])

\* Shared items over all pairs of the directory
RECURSIVE SumOver(_, _)
SumOver(S, f) ==
    IF S = {} THEN 0
    ELSE LET x == CHOOSE y \in S : TRUE IN f[x] + SumOver(S \ {x}, f)

TotalShared(d, outs) ==
    LET prs == {p \in SUBSET d : Cardinality(p) = 2}
        shared == [p \in prs |-> Cardinality({k \in Keys : \A e \in p : k \in outs[e]})]
    IN SumOver(prs, shared)

Prechecks == {"ok", "reference_missing", "not_a_directory"}

Init ==
    /\ pc = "start"
    /\ precheck \in Prechecks
    /\ dir \in SUBSET EntrantNames
    /\ outputs \in [EntrantNames -> SUBSET Keys]
    /\ \A e \in EntrantNames \ dir : outputs[e] = {}
    /\ TotalShared(dir, outputs) <= MaxShared
    /\ model_files = <<>>
    /\ pairs = <<>>
    /\ pair_idx = 0
    /\ loaded_models = {}
    /\ sorted_inputs = <<>>
    /\ item_idx = 0
    /\ results = <<>>
    /\ all_pairwise_results = <<>>
    /\ ratings = <<>>
    /\ history = <<>>
    /\ sorted_ratings = <<>>
    /\ trace = <<>>

\* main.py:170-201: the checks, the directory listing (glob yields the files in
\* an order the file system chooses) and the list of pairs
Start ==
    /\ pc = "start"
    /\ \/ /\ precheck # "ok"
          /\ pc' = "returned"
          /\ UNCHANGED <<model_files, pairs, pair_idx>>
       \/ /\ precheck = "ok"
          /\ \E listing \in Perms(dir) :
                /\ model_files' = listing
                /\ IF Len(listing) < 2
                   THEN /\ pc' = "returned"
                        /\ UNCHANGED <<pairs, pair_idx>>
                   ELSE /\ pc' = "pairs"
                        /\ pairs' = combinations(listing)
                        /\ pair_idx' = 1
    /\ UNCHANGED <<precheck, dir, outputs, loaded_models, sorted_inputs, item_idx, results,
                   all_pairwise_results, ratings, history, sorted_ratings, trace>>

model_a_name == pairs[pair_idx][1]
model_b_name == pairs[pair_idx][2]
prompt_id == sorted_inputs[item_idx]

\* main.py:208-223 with 62-81: the next pair is loaded and its shared items
\* sorted; a pair with no shared item returns [] at once
BeginPair ==
    /\ pc = "pairs"
    /\ pair_idx <= Len(pairs)
    /\ loaded_models' = loaded_models \cup {model_a_name, model_b_name}
    /\ trace' = Append(trace, PairCall(model_a_name, model_b_name))
    /\ LET common == common_inputs(outputs[model_a_name], outputs[model_b_name])
       IN IF common = {}
          THEN /\ pair_idx' = pair_idx + 1
               /\ UNCHANGED <<pc, sorted_inputs, item_idx>>
          ELSE /\ \E iteration \in Perms(common) : sorted_inputs' = sort_inputs(iteration)
               /\ item_idx' = 1
               /\ pc' = "round1"
               /\ UNCHANGED pair_idx
    /\ UNCHANGED <<precheck, dir, outputs, model_files, pairs, results,
                   all_pairwise_results, ratings, history, sorted_ratings>>

\* main.py:89-117
Round1 ==
    /\ pc = "round1"
    /\ \E verdict \in JudgeOutcomes :
          LET score == score_a_1(verdict)
              args == update_args_1(model_a_name, model_b_name)
              elo == round_elo(ratings, history, args[1], args[2], verdict, score)
          IN /\ ratings' = elo.ratings
             /\ history' = elo.history
             /\ results' = round_results(results, verdict,
                              result_1(prompt_id, model_a_name, model_b_name, verdict))
             /\ trace' = trace \o round_calls(model_a_name, model_b_name, prompt_id, verdict,
                                              args[1], args[2], score)
    /\ pc' = "round2"
    /\ UNCHANGED <<precheck, dir, outputs, model_files, pairs, pair_idx, loaded_models,
                   sorted_inputs, item_idx, all_pairwise_results, sorted_ratings>>

\* main.py:119-159 and 223: the swapped round; after the last item the pair's
\* results are returned and appended to all_pairwise_results
Round2 ==
    /\ pc = "round2"
    /\ \E verdict \in JudgeOutcomes :
          LET score == score_a_2(verdict)
              args == update_args_2(model_a_name, model_b_name)
              elo == round_elo(ratings, history, args[1], args[2], verdict, score)
              res == round_results(results, verdict,
                         result_2(prompt_id, model_a_name, model_b_name, verdict))
          IN /\ ratings' = elo.ratings
             /\ history' = elo.history
             /\ trace' = trace \o round_calls(model_b_name, model_a_name, prompt_id, verdict,
                                              args[1], args[2], score)
             /\ IF item_idx < Len(sorted_inputs)
                THEN /\ results' = res
                     /\ item_idx' = item_idx + 1
                     /\ pc' = "round1"
                     /\ UNCHANGED <<pair_idx, sorted_inputs, all_pairwise_results>>
                ELSE /\ all_pairwise_results' = all_pairwise_results \o res
                     /\ results' = <<>>
                     /\ sorted_inputs' = <<>>
                     /\ item_idx' = 0
                     /\ pair_idx' = pair_idx + 1
                     /\ pc' = "pairs"
    /\ UNCHANGED <<precheck, dir, outputs, model_files, pairs, loaded_models, sorted_ratings>>

\* main.py:225-228: the final ranking
Finish ==
    /\ pc = "pairs"
    /\ pair_idx > Len(pairs)
    /\ sorted_ratings' = rank_ratings(ratings)
    /\ pc' = "done"
    /\ UNCHANGED <<precheck, dir, outputs, model_files, pairs, pair_idx, loaded_models,
                   sorted_inputs, item_idx, results, all_pairwise_results, ratings, history,
                   trace>>

Next == Start \/ BeginPair \/ Round1 \/ Round2 \/ Finish

Spec == Init /\ [][Next]_vars

----------------------------------------------------------------------------
(* The rating system used directly: any caller of elo.py's three methods.     *)
(* The two names of an update differ, as the pairs of process_evaluations do. *)

InitElo ==
    /\ pc = "api"
    /\ precheck = "ok"
    /\ dir = {}
    /\ outputs = [e \in EntrantNames |-> {}]
    /\ model_files = <<>>
    /\ pairs = <<>>
    /\ pair_idx = 0
    /\ loaded_models = {}
    /\ sorted_inputs = <<>>
    /\ item_idx = 0
    /\ results = <<>>
    /\ all_pairwise_results = <<>>
    /\ ratings = <<>>
    /\ history = <<>>
    /\ sorted_ratings = <<>>
    /\ trace = <<>>

\* elo.py:20-31
ApiGetRating ==
    /\ pc = "api"
    /\ Len(trace) < MaxApiCalls
    /\ \E name \in EntrantNames :
          /\ ratings' = get_rating_init(ratings, name)
          /\ trace' = Append(trace, GetRatingCall(name, get_rating(ratings, name)))
    /\ UNCHANGED <<pc, history>>
    /\ UNCHANGED tournament_vars

\* elo.py:33-43
ApiExpectedScore ==
    /\ pc = "api"
    /\ Len(trace) < MaxApiCalls
    /\ \E a, b \in Rated(ratings) :
          /\ a # b
          /\ trace' = Append(trace, ExpectedScoreCall(
                         calculate_expected_score(RatingOf(ratings, a), RatingOf(ratings, b))))
    /\ UNCHANGED <<pc, ratings, history>>
    /\ UNCHANGED tournament_vars

\* elo.py:45-80
ApiUpdateRatings ==
    /\ pc = "api"
    /\ Len(trace) < MaxApiCalls
    /\ \E a, b \in EntrantNames, result \in {Win, Draw, Loss} :
          /\ a # b
          /\ LET elo == update_ratings(ratings, history, a, b, result)
             IN /\ ratings' = elo.ratings
                /\ history' = elo.history
          /\ trace' = Append(trace, UpdateCall(a, b, result))
    /\ UNCHANGED pc
    /\ UNCHANGED tournament_vars

ApiNext == ApiGetRating \/ ApiExpectedScore \/ ApiUpdateRatings

\* The rating system under the tournament and under direct use
SpecElo == (Init \/ InitElo) /\ [][Next \/ ApiNext]_vars

----------------------------------------------------------------------------
(* Tournaments of OrderEntrants entrants in which exactly two pairs have a    *)
(* shared item: the two pairs have an entrant in common (Overlapping) or      *)
(* none (Disjoint).  The directory listing of Start assigns the roles.        *)

OrderNames == {NamePool[i] : i \in 1..OrderEntrants}

Overlapping ==
    [e \in OrderNames \cup EntrantNames |->
        IF e = NamePool[1] THEN {KeyPool[1], KeyPool[2]}
        ELSE IF e = NamePool[2] THEN {KeyPool[1]}
        ELSE IF e = NamePool[3] THEN {KeyPool[2]}
        ELSE {}]

Disjoint ==
    [e \in OrderNames \cup EntrantNames |->
        IF e \in {NamePool[1], NamePool[2]} THEN {KeyPool[1]}
        ELSE IF e \in {NamePool[3], NamePool[4]} THEN {KeyPool[2]}
        ELSE {}]

InitOrder ==
    /\ pc = "start"
    /\ precheck = "ok"
    /\ dir = OrderNames
    /\ outputs \in {Overlapping, Disjoint}
    /\ model_files = <<>>
    /\ pairs = <<>>
    /\ pair_idx = 0
    /\ loaded_models = {}
    /\ sorted_inputs = <<>>
    /\ item_idx = 0
    /\ results = <<>>
    /\ all_pairwise_results = <<>>
    /\ ratings = <<>>
    /\ history = <<>>
    /\ sorted_ratings = <<>>
    /\ trace = <<>>

SpecOrder == InitOrder /\ [][Next]_vars

----------------------------------------------------------------------------
(* Vocabulary of the properties *)

\* every ComparisonResult recorded so far
AllResults == all_pairwise_results \o results

IsJudge(e) == e.op = "judge"
IsUpdate(e) == e.op = "update_ratings"
IsPairCall(e) == e.op = "run_pairwise_comparison"
Succeeded(e) == IsJudge(e) /\ e.verdict # "Error"
Failed(e) == IsJudge(e) /\ e.verdict = "Error"

InTournament == pc \in {"pairs", "round1", "round2", "done"}
InRound == pc \in {"round1", "round2"}

\* of two entrants of the listing, the one that comes first in it
EntrantA(x, y) == IF IndexOf(model_files, x) < IndexOf(model_files, y) THEN x ELSE y
EntrantB(x, y) == IF IndexOf(model_files, x) < IndexOf(model_files, y) THEN y ELSE x

\* the step is a round whose judge call raised
FailedRoundStep ==
    /\ InRound
    /\ Len(trace') = Len(trace) + 1
    /\ Failed(trace'[Len(trace')])

----------------------------------------------------------------------------
\* C1: a round whose judge call raises changes no rating, appends no history
\* record and no ComparisonResult, and the run goes on: after a failed forward
\* round the swapped round of the same item, after a failed swapped round the
\* next item of the pair or, after the last item, the next pair.
C1_FailedRoundSkipped ==
    [][FailedRoundStep =>
         /\ ratings' = ratings
         /\ history' = history
         /\ AllResults' = AllResults
         /\ pc = "round1" =>
               /\ pc' = "round2"
               /\ item_idx' = item_idx /\ pair_idx' = pair_idx
               /\ sorted_inputs' = sorted_inputs
         /\ (pc = "round2" /\ item_idx < Len(sorted_inputs)) =>
               /\ pc' = "round1"
               /\ item_idx' = item_idx + 1 /\ pair_idx' = pair_idx
               /\ sorted_inputs' = sorted_inputs
         /\ (pc = "round2" /\ item_idx = Len(sorted_inputs)) =>
               /\ pc' = "pairs"
               /\ pair_idx' = pair_idx + 1]_vars

\* a failed forward round was followed by a judged swapped round of the same
\* item, and a failed swapped round by the judge call of the next pair
C1_Witness ==
    /\ pc = "done"
    /\ \E i \in 1..(Len(trace) - 1) :
          /\ Failed(trace[i]) /\ Succeeded(trace[i + 1])
          /\ trace[i + 1].item = trace[i].item
          /\ trace[i + 1].first = trace[i].second
    /\ \E i \in 1..(Len(trace) - 2) :
          /\ Failed(trace[i]) /\ IsPairCall(trace[i + 1]) /\ IsJudge(trace[i + 2])
    /\ Len(history) = 2 /\ Len(AllResults) = 2

----------------------------------------------------------------------------
JudgedBetter(e) ==
    IF e.verdict = "A" THEN e.first ELSE IF e.verdict = "B" THEN e.second ELSE "Tie"

OutcomeFor(entrant, better) ==
    IF better = "Tie" THEN Draw ELSE IF better = entrant THEN Win ELSE Loss

\* C2: the outcome is relative to entrant_a in both rounds.  After every judge
\* call that returns, update_ratings(entrant_a, entrant_b, outcome) is called
\* with outcome 1.0 when entrant_a's response was judged better, 0.0 when
\* entrant_b's was and 0.5 on a tie, whichever slot held entrant_a's response;
\* the swapped round records real winner B for "A", A for "B", Tie for "Tie".
C2_OutcomeRelativeToA ==
    InTournament =>
      /\ \A i \in DOMAIN trace :
            Succeeded(trace[i]) =>
               LET a == EntrantA(trace[i].first, trace[i].second)
                   b == EntrantB(trace[i].first, trace[i].second)
               IN /\ i < Len(trace)
                  /\ trace[i + 1] = UpdateCall(a, b, OutcomeFor(a, JudgedBetter(trace[i])))
      /\ Len(AllResults) = Len(history)
      /\ \A j \in DOMAIN AllResults :
            LET r == AllResults[j]
                h == history[j]
            IN IF r.swapped
               THEN /\ r.model_a = h.model_b /\ r.model_b = h.model_a
                    /\ r.judge_decision = "A" => (r.real_winner = "B" /\ h.score_a = Loss)
                    /\ r.judge_decision = "B" => (r.real_winner = "A" /\ h.score_a = Win)
                    /\ r.judge_decision = "Tie" => (r.real_winner = "Tie" /\ h.score_a = Draw)
               ELSE /\ r.model_a = h.model_a /\ r.model_b = h.model_b
                    /\ r.judge_decision = "A" => h.score_a = Win
                    /\ r.judge_decision = "B" => h.score_a = Loss
                    /\ r.judge_decision = "Tie" => h.score_a = Draw

\* "first wins" in a swapped round: a loss for entrant_a, real winner B; and
\* "second wins" in another swapped round: a win for entrant_a
C2_Witness ==
    /\ pc = "done"
    /\ \E j \in DOMAIN AllResults :
          /\ AllResults[j].swapped /\ AllResults[j].judge_decision = "A"
          /\ AllResults[j].real_winner = "B" /\ history[j].score_a = Loss
    /\ \E j \in DOMAIN AllResults :
          /\ AllResults[j].swapped /\ AllResults[j].judge_decision = "B"
          /\ history[j].score_a = Win

----------------------------------------------------------------------------
JudgeIdx(first, second, item) ==
    {i \in DOMAIN trace : IsJudge(trace[i]) /\ trace[i].first = first
                          /\ trace[i].second = second /\ trace[i].item = item}

UpdateCalls == SelectSeq(trace, IsUpdate)
JudgeCalls == SelectSeq(trace, IsJudge)
PairCalls == SelectSeq(trace, IsPairCall)

\* pairs[k] has been compared to the end
PairFinished(k) == pc = "done" \/ k < pair_idx

\* C3: per pair and shared item there is one forward judge call and then one
\* swapped judge call; each call that returns is followed at once by one
\* update_ratings(entrant_a, entrant_b, .), and nothing else calls it.  So an
\* item whose two judge calls return gets exactly two updates, the forward
\* round's before the swapped round's, both before any call for the next item
\* or pair.  Two entrants, one shared item, "first wins" twice: the updates are
\* 1.0 then 0.0.
C3_TwoUpdatesPerItem ==
    InTournament =>
      /\ \A i \in DOMAIN trace :
            /\ IsUpdate(trace[i]) =>
                  /\ i > 1 /\ Succeeded(trace[i - 1])
                  /\ <<trace[i].first, trace[i].second>> \in Range(pairs)
                  /\ {trace[i].first, trace[i].second}
                        = {trace[i - 1].first, trace[i - 1].second}
            /\ Succeeded(trace[i]) => (i < Len(trace) /\ IsUpdate(trace[i + 1]))
      /\ \A k \in DOMAIN pairs :
            \A item \in outputs[pairs[k][1]] \cap outputs[pairs[k][2]] :
               LET a == pairs[k][1]
                   b == pairs[k][2]
                   F == JudgeIdx(a, b, item)
                   S == JudgeIdx(b, a, item)
               IN /\ Cardinality(F) <= 1 /\ Cardinality(S) <= 1
                  /\ PairFinished(k) => (F # {} /\ S # {})
                  /\ S # {} => F # {}
                  /\ \A f \in F, s \in S :
                        /\ s = f + (IF Succeeded(trace[f]) THEN 2 ELSE 1)
                        /\ (Succeeded(trace[f]) /\ Succeeded(trace[s])) =>
                              /\ trace[f + 1] = UpdateCall(a, b, trace[f + 1].result)
                              /\ trace[s + 1] = UpdateCall(a, b, trace[s + 1].result)
                              /\ \A j \in (s + 2)..Len(trace) :
                                    IsUpdate(trace[j]) =>
                                       ~(trace[j - 1].item = item
                                         /\ {trace[j - 1].first, trace[j - 1].second} = {a, b})
      /\ (/\ pc = "done" /\ Len(model_files) = 2
          /\ Cardinality(outputs[model_files[1]] \cap outputs[model_files[2]]) = 1
          /\ \A i \in DOMAIN trace : IsJudge(trace[i]) => trace[i].verdict = "A")
         => UpdateCalls = <<UpdateCall(model_files[1], model_files[2], Win),
                            UpdateCall(model_files[1], model_files[2], Loss)>>

\* a pair with two shared items, all four judge calls returned: four updates
C3_Witness ==
    /\ pc = "done"
    /\ \E k \in DOMAIN pairs :
          Cardinality(outputs[pairs[k][1]] \cap outputs[pairs[k][2]]) = 2
    /\ Len(JudgeCalls) = 4
    /\ Len(UpdateCalls) = 4
    /\ \A i \in DOMAIN UpdateCalls :
          <<UpdateCalls[i].first, UpdateCalls[i].second>> = <<model_files[1], model_files[2]>>

----------------------------------------------------------------------------
\* C6: with N >= 2 files, run_pairwise_comparison is called once for each of
\* the N*(N-1)/2 unordered pairs of distinct entrants, never for an entrant
\* against itself or for a pair in both orientations, entrant_a being the one
\* that comes earlier in the directory listing.
C6_EveryPairOnce ==
    InTournament =>
      LET n == Len(model_files)
          called == IF pc = "done" THEN Len(pairs)
                    ELSE IF pc = "pairs" THEN pair_idx - 1 ELSE pair_idx
      IN /\ n >= 2 /\ Range(model_files) = dir /\ Cardinality(dir) = n
         /\ Len(pairs) = (n * (n - 1)) \div 2
         /\ \A k \in DOMAIN pairs :
               /\ pairs[k][1] # pairs[k][2]
               /\ {pairs[k][1], pairs[k][2]} \subseteq dir
               /\ IndexOf(model_files, pairs[k][1]) < IndexOf(model_files, pairs[k][2])
         /\ \A k, l \in DOMAIN pairs :
               k # l => {pairs[k][1], pairs[k][2]} # {pairs[l][1], pairs[l][2]}
         /\ \A x, y \in dir :
               x # y => \E k \in DOMAIN pairs : {pairs[k][1], pairs[k][2]} = {x, y}
         /\ PairCalls = [k \in 1..called |-> PairCall(pairs[k][1], pairs[k][2])]

\* three entrants listed in another order than that of their names: three calls
C6_Witness ==
    /\ pc = "done"
    /\ model_files = <<NamePool[3], NamePool[1], NamePool[2]>>
    /\ Len(PairCalls) = 3
    /\ PairCalls[1].first = NamePool[3]
    /\ PairCalls[3] = PairCall(NamePool[1], NamePool[2])

----------------------------------------------------------------------------
NoCommon(a, b) == outputs[a] \cap outputs[b] = {}

\* no judge call and no update is ever made for a pair without a common key
C7_NoJudgedPairWithoutCommonKey ==
    InTournament =>
      /\ \A i \in DOMAIN trace :
            (IsJudge(trace[i]) \/ IsUpdate(trace[i])) =>
               ~NoCommon(trace[i].first, trace[i].second)
      /\ \A j \in DOMAIN AllResults : ~NoCommon(AllResults[j].model_a, AllResults[j].model_b)
      /\ \A j \in DOMAIN history : ~NoCommon(history[j].model_a, history[j].model_b)

\* C7: a pair with no item key in common makes no judge call and produces no
\* ComparisonResult; ratings and history stay as they are (no entrant is
\* initialized by it), and the loop goes on to the next pair.
C7_EmptyPairSkipped ==
    /\ []C7_NoJudgedPairWithoutCommonKey
    /\ [][(/\ pc = "pairs" /\ pair_idx <= Len(pairs)
           /\ NoCommon(model_a_name, model_b_name)) =>
             /\ ratings' = ratings
             /\ history' = history
             /\ AllResults' = AllResults
             /\ trace' = Append(trace, PairCall(model_a_name, model_b_name))
             /\ pc' = "pairs"
             /\ pair_idx' = pair_idx + 1]_vars

\* a pair without a common key was skipped, the next pair was judged, and an
\* entrant of the skipped pair has no rating at the end
C7_Witness ==
    /\ pc = "done"
    /\ \E i \in 1..(Len(trace) - 2) :
          /\ IsPairCall(trace[i]) /\ NoCommon(trace[i].first, trace[i].second)
          /\ IsPairCall(trace[i + 1]) /\ Succeeded(trace[i + 2])
          /\ \E e \in {trace[i].first, trace[i].second} : ~HasRating(ratings, e)
    /\ Len(history) >= 1

----------------------------------------------------------------------------
(* The final ratings had the pairs been compared in another order, with the   *)
(* same verdict for every (pair, item, round): the judge calls of the run are  *)
(* replayed pair by pair.  A pair without shared items makes no call, so an   *)
(* order of the pairs is an order of the pairs that have shared items.        *)

ActivePairs == {p \in Range(pairs) : ~NoCommon(p[1], p[2])}

JudgeCallsOf(p) ==
    LET OfPair(e) == IsJudge(e) /\ {e.first, e.second} = {p[1], p[2]}
    IN SelectSeq(trace, OfPair)

RECURSIVE ReplayRounds(_, _, _)
ReplayRounds(elo, p, calls) ==
    IF calls = <<>> THEN elo
    ELSE LET e == Head(calls)
             swapped == e.first = p[2]
             score == IF swapped THEN score_a_2(e.verdict) ELSE score_a_1(e.verdict)
             args == IF swapped THEN update_args_2(p[1], p[2]) ELSE update_args_1(p[1], p[2])
         IN ReplayRounds(round_elo(elo.ratings, elo.history, args[1], args[2], e.verdict, score),
                         p, Tail(calls))

RECURSIVE ReplayPairs(_, _)
ReplayPairs(elo, order) ==
    IF order = <<>> THEN elo
    ELSE ReplayPairs(ReplayRounds(elo, order[1], JudgeCallsOf(order[1])), Tail(order))

FinalRatings(order) == ReplayPairs([ratings |-> <<>>, history |-> <<>>], order).ratings

IsActive(p) == p \in ActivePairs
OrderOfTheRun == SelectSeq(pairs, IsActive)

Abs(x) == IF x < 0 THEN 0 - x ELSE x

\* a tenth of a rating point: far above float rounding and above what the
\* tabulated logistic curve can add over the updates of a run
Rounding == Scale \div 10

SameSet(rs1, rs2) == Rated(rs1) = Rated(rs2)

\* C4 as stated: for every order of the pairs the final rating of every
\* entrant is the same up to rounding.
C4_OrderIndependent ==
    pc = "done" =>
       \A order \in Perms(ActivePairs) :
          /\ SameSet(FinalRatings(order), ratings)
          /\ \A e \in Rated(ratings) :
                Abs(RatingOf(FinalRatings(order), e) - RatingOf(ratings, e)) <= Rounding

PairwiseDisjoint(P) ==
    \A p, q \in P : p # q => {p[1], p[2]} \cap {q[1], q[2]} = {}

\* C4 amended: the order of the pairs does not affect the final ratings when
\* no two pairs that have shared items have an entrant in common; then every
\* order ends with exactly the same rating for every entrant.  (Replaying the
\* run's own order gives the run's ratings.)
C4_DisjointPairsCommute ==
    pc = "done" =>
       /\ FinalRatings(OrderOfTheRun) = ratings
       /\ PairwiseDisjoint(ActivePairs) =>
             \A order \in Perms(ActivePairs) :
                /\ SameSet(FinalRatings(order), ratings)
                /\ \A e \in Rated(ratings) :
                      RatingOf(FinalRatings(order), e) = RatingOf(ratings, e)

\* two disjoint pairs, both rated, with ratings that moved
C4_Witness ==
    /\ pc = "done"
    /\ Cardinality(ActivePairs) = 2
    /\ PairwiseDisjoint(ActivePairs)
    /\ Len(history) = 4
    /\ Cardinality(Rated(ratings)) = 4
    /\ \A e \in Rated(ratings) : RatingOf(ratings, e) # base_rating * Scale

----------------------------------------------------------------------------
\* C5 as stated: the order in which the shared items of a pair are judged is
\* a function of the set of shared keys alone, whatever order the set is
\* iterated in.
C5_OrderFunctionOfKeySet ==
    InRound =>
       \A iteration \in Perms(Range(sorted_inputs)) : sort_inputs(iteration) = sorted_inputs

----------------------------------------------------------------------------
Updated == {e \in dir : \E i \in DOMAIN trace :
                           IsUpdate(trace[i]) /\ e \in {trace[i].first, trace[i].second}}

RankingOfUpdated ==
    /\ {sorted_ratings[i].model : i \in DOMAIN sorted_ratings} = Updated
    /\ Len(sorted_ratings) = Cardinality(Updated)
    /\ \A i \in DOMAIN sorted_ratings :
          /\ HasRating(ratings, sorted_ratings[i].model)
          /\ sorted_ratings[i].rating = RatingOf(ratings, sorted_ratings[i].model)
    /\ \A i, j \in DOMAIN sorted_ratings :
          i < j => sorted_ratings[i].rating >= sorted_ratings[j].rating

\* steps the run still has to take: one to begin each remaining pair, two
\* rounds per shared item, one for the ranking
SharedCount(k) == Cardinality(outputs[pairs[k][1]] \cap outputs[pairs[k][2]])

PairSteps(from) ==
    LET rest == {k \in DOMAIN pairs : k >= from}
    IN SumOver(rest, [k \in rest |-> 1 + 2 * SharedCount(k)])

StepsLeft ==
    IF pc = "start"
    THEN 2 + Cardinality(dir) * Cardinality(dir) * (1 + 2 * Cardinality(Keys))
    ELSE IF pc = "pairs" THEN 1 + PairSteps(pair_idx)
    ELSE IF pc = "round1"
    THEN 1 + PairSteps(pair_idx + 1) + 2 * (Len(sorted_inputs) - item_idx) + 2
    ELSE IF pc = "round2"
    THEN 1 + PairSteps(pair_idx + 1) + 2 * (Len(sorted_inputs) - item_idx) + 1
    ELSE 0

\* C8: with at least two entrants listed, the run reaches the final ranking
\* whatever pairs, items and rounds were skipped: it cannot stop before the
\* ranking (a step is always possible) and cannot go on for ever (every step
\* leaves fewer steps to take).  The ranking lists exactly the entrants that
\* took part in an update, each once, with their current rating, in
\* non-increasing order of rating.
C8_TerminatesWithRanking ==
    /\ []((Len(model_files) >= 2 /\ pc # "done") => ENABLED Next)
    /\ [][StepsLeft' < StepsLeft /\ StepsLeft' >= 0]_vars
    /\ [](pc = "returned" => Len(model_files) < 2)
    /\ [](pc = "done" => RankingOfUpdated)

\* a finished run with a failed round and a skipped pair, one entrant without
\* any update and so not ranked, the other two ranked against insertion order
C8_Witness ==
    /\ pc = "done"
    /\ \E i \in DOMAIN trace : Failed(trace[i])
    /\ \E k \in DOMAIN pairs : NoCommon(pairs[k][1], pairs[k][2])
    /\ Cardinality(dir) = 3
    /\ Len(sorted_ratings) = 2
    /\ sorted_ratings[1].rating > sorted_ratings[2].rating
    /\ sorted_ratings[1].model = ratings[2].model

----------------------------------------------------------------------------
HistoryMatchesCalls ==
    /\ Len(history) = Len(UpdateCalls)
    /\ \A i \in DOMAIN history :
          /\ history[i].model_a = UpdateCalls[i].first
          /\ history[i].model_b = UpdateCalls[i].second
          /\ history[i].score_a = UpdateCalls[i].result

\* C9: the history is append-only.  It holds one record per update_ratings
\* call, in call order; a step appends one record at the end when it calls
\* update_ratings and otherwise (get_rating, calculate_expected_score, a
\* failed round, a skipped pair) leaves the history as it is; no record is
\* changed, removed or moved.
C9_HistoryAppendOnly ==
    /\ []HistoryMatchesCalls
    /\ [][/\ Len(history') >= Len(history)
          /\ SubSeq(history', 1, Len(history)) = history
          /\ Len(UpdateCalls') - Len(UpdateCalls) \in {0, 1}
          /\ Len(history') - Len(history) = Len(UpdateCalls') - Len(UpdateCalls)]_vars

\* direct use: two different updates, then a get_rating that leaves the two
\* records in place
C9_Witness ==
    /\ pc = "api"
    /\ Len(trace) = 3
    /\ IsUpdate(trace[1]) /\ IsUpdate(trace[2]) /\ trace[1] # trace[2]
    /\ trace[3].op = "get_rating"
    /\ Len(history) = 2

----------------------------------------------------------------------------
Base == base_rating * Scale

Names(h) == {h.model_a, h.model_b}

\* the rating of entrant e according to the records hs
LastAfter(hs, e) ==
    IF \E j \in DOMAIN hs : e \in Names(hs[j])
    THEN LET j == CHOOSE k \in DOMAIN hs :
                     /\ e \in Names(hs[k])
                     /\ \A l \in DOMAIN hs : e \in Names(hs[l]) => l <= k
         IN IF hs[j].model_a = e THEN hs[j].rating_a_after ELSE hs[j].rating_b_after
    ELSE Base

UpdatesBefore(i) == Cardinality({j \in 1..(i - 1) : IsUpdate(trace[j])})

\* C10: the history is an audit chain of the ratings.  The 'before' rating of
\* an entrant in a record is its 'after' rating in the latest earlier record
\* that names it, or base_rating; the current rating of an entrant is its
\* 'after' rating in the last record that names it, or base_rating; and
\* get_rating returns that value, so repeated calls without an update between
\* them agree.
C10_AuditChain ==
    /\ \A i \in DOMAIN history :
          LET earlier == SubSeq(history, 1, i - 1)
          IN /\ history[i].rating_a_before = LastAfter(earlier, history[i].model_a)
             /\ history[i].rating_b_before = LastAfter(earlier, history[i].model_b)
             /\ HasRating(ratings, history[i].model_a)
             /\ HasRating(ratings, history[i].model_b)
    /\ \A k \in DOMAIN ratings : ratings[k].rating = LastAfter(history, ratings[k].model)
    /\ \A k, l \in DOMAIN ratings : k # l => ratings[k].model # ratings[l].model
    /\ \A i \in DOMAIN trace :
          trace[i].op = "get_rating" =>
             /\ trace[i].result
                   = LastAfter(SubSeq(history, 1, UpdatesBefore(i)), trace[i].first)
             /\ \A j \in DOMAIN trace :
                   (/\ i < j /\ trace[j].op = "get_rating"
                    /\ trace[j].first = trace[i].first
                    /\ UpdatesBefore(j) = UpdatesBefore(i))
                   => trace[j].result = trace[i].result

\* three updates: an entrant of the first is absent from the second and comes
\* back in the third, on the other side, with the rating the first left it
C10_Witness ==
    /\ pc = "api"
    /\ Len(history) = 3
    /\ history[1].model_a = history[3].model_b
    /\ history[1].model_a \notin Names(history[2])
    /\ history[3].rating_b_before = history[1].rating_a_after
    /\ history[3].rating_b_before # Base
    /\ history[3].rating_a_before # Base

----------------------------------------------------------------------------
(* update_ratings under direct use with any outcome: result is a float the  *)
(* caller chooses, not only the 1.0, 0.5 and 0.0 the tournament passes.     *)

Outcomes == {Loss, Scale \div 4, Draw, (3 * Scale) \div 4, Win}

\* elo.py:45-80
ApiUpdateOutcome ==
    /\ pc = "api"
    /\ Len(trace) < MaxApiCalls
    /\ \E a, b \in EntrantNames, result \in Outcomes :
          /\ a # b
          /\ LET elo == update_ratings(ratings, history, a, b, result)
             IN /\ ratings' = elo.ratings
                /\ history' = elo.history
          /\ trace' = Append(trace, UpdateCall(a, b, result))
    /\ UNCHANGED pc
    /\ UNCHANGED tournament_vars

SpecOutcome == InitElo /\ [][ApiGetRating \/ ApiExpectedScore \/ ApiUpdateOutcome]_vars

\* what a record's update added to the rating of its model_a, of its model_b
DeltaA(h) == h.rating_a_after - h.rating_a_before
DeltaB(h) == h.rating_b_after - h.rating_b_before

SumOfRatings == SumOver(DOMAIN ratings, [k \in DOMAIN ratings |-> ratings[k].rating])

\* C11: with exact arithmetic every update_ratings(A, B, outcome), A # B,
\* adds to A's rating what it takes from B's, whatever the two ratings before
\* it and whatever the outcome; so the ratings always sum to base_rating times
\* the number of entrants in the ratings mapping.  With equal ratings and
\* outcome 1.0, A's rating strictly rises and B's strictly falls.
C11_ZeroSum ==
    /\ \A i \in DOMAIN history :
          /\ DeltaA(history[i]) + DeltaB(history[i]) = 0
          /\ DeltaA(history[i]) = k_factor * (history[i].score_a - history[i].expected_a)
          /\ (/\ history[i].rating_a_before = history[i].rating_b_before
              /\ history[i].score_a = Win)
             => /\ history[i].rating_a_after > history[i].rating_a_before
                /\ history[i].rating_b_after < history[i].rating_b_before
    /\ SumOfRatings = Base * Len(ratings)

\* a win between equal ratings, then an update between unequal ratings with
\* an outcome that is none of win, tie and loss and that moved both ratings,
\* beside an entrant that only get_rating put in the mapping
C11_Witness ==
    /\ pc = "api"
    /\ Len(history) = 2
    /\ Len(ratings) = 3
    /\ history[1].rating_a_before = history[1].rating_b_before
    /\ history[1].score_a = Win
    /\ history[2].rating_a_before # history[2].rating_b_before
    /\ history[2].score_a \notin {Win, Draw, Loss}
    /\ DeltaA(history[2]) # 0

====
